---- MODULE Spec2Model ----
(***************************************************************************)
(* RiskScore-360 scoring engine (src/riskscore-360/compute_score.py).      *)
(*                                                                         *)
(* JSON values are tagged records, Python exceptions are results tagged    *)
(* "raise", and the floating-point quantities of the calculators are kept  *)
(* in millionths ("micro") so that int() truncation and the severity       *)
(* comparisons on the untruncated score are computed, not assumed.         *)
(***************************************************************************)
EXTENDS Integers, Sequences, FiniteSets, TLC

VARIABLES
    pc,       \* position of the current run of main(): idle, loaded, done, raised
    found,    \* what this run found at the path of real_inputs.json
    data,     \* the document returned by load_real_inputs() in this run
    report,   \* what this run of main() emitted: the report, or the exception
    call,     \* calculator harness: the calculator called and its arguments
    ret,      \* calculator harness: what the call returned or raised
    watched,  \* history: the document whose first report is remembered
    memo,     \* history: the first report emitted for the watched document
    between   \* history: another document was scored since memo was taken

vars == <<pc, found, data, report, call, ret, watched, memo, between>>

-----------------------------------------------------------------------------
(* JSON values as json.load() produces them *)

JNull == [t |-> "null"]
JInt(i) == [t |-> "int", v |-> i]
JStr(s) == [t |-> "str", v |-> s]
JList(l) == [t |-> "list", v |-> l]
JDict(d) == [t |-> "dict", v |-> d]

EmptyDict == JDict(<<>>)
EmptyList == JList(<<>>)

\* Python truth value of a JSON value (the `x or default` idiom).
Truthy(x) ==
    CASE x.t = "null" -> FALSE
      [] x.t = "int"  -> x.v # 0
      [] x.t = "str"  -> x.v # ""
      [] x.t = "list" -> Len(x.v) > 0
      [] x.t = "dict" -> DOMAIN x.v # {}

\* `x or default`
PyOr(x, default) == IF Truthy(x) THEN x ELSE default

\* Results of a Python expression or call: a value, or an exception class.
Return(v) == [kind |-> "return", value |-> v]
Raise(e) == [kind |-> "raise", value |-> e]
Raised(r) == r.kind = "raise"

\* obj.get(key, default): a dict method; any other JSON value has no .get
PyGet(obj, key, default) ==
    IF obj.t # "dict" THEN Raise("AttributeError")
    ELSE IF key \in DOMAIN obj.v THEN Return(obj.v[key])
    ELSE Return(default)

\* The decimal strings the model's documents use, with their values.
NumericStrings == [s \in {"0", "3", "7"} |-> CASE s = "0" -> 0 [] s = "3" -> 3 [] s = "7" -> 7]

\* int(x) for a JSON value x
PyInt(x) ==
    CASE x.t = "int" -> Return(x.v)
      [] x.t = "str" -> IF x.v \in DOMAIN NumericStrings
                        THEN Return(NumericStrings[x.v])
                        ELSE Raise("ValueError")
      [] OTHER -> Raise("TypeError")

\* x > k for a JSON value x and an int k: only numbers are ordered with ints
PyGreater(x, k) ==
    IF x.t = "int" THEN Return(x.v > k) ELSE Raise("TypeError")

Max(a, b) == IF a >= b THEN a ELSE b
Min(a, b) == IF a <= b THEN a ELSE b

\* max(0, x): the clamp of the policy, IAM and defender calculators
NonNeg(x) == Max(0, x)

-----------------------------------------------------------------------------
(* Floating point, in millionths *)

\* one unit of the floating-point quantities, in millionths
Micro == 1000 * 1000

\* ceil(10^6 * e^(-n/10)) for n = 0..40
ExpNeg10Table == <<
    1000000, 904838, 818731, 740819, 670321, 606531, 548812, 496586, 449329,
    406570, 367880, 332872, 301195, 272532, 246597, 223131, 201897, 182684,
    165299, 149569, 135336, 122457, 110804, 100259, 90718, 82085, 74274, 67206,
    60811, 55024, 49788, 45050, 40763, 36884, 33374, 30198, 27324, 24724, 22371,
    20242, 18316 >>

\* ceil(10^6 * e^(-n/20)) for n = 0..60
ExpNeg20Table == <<
    1000000, 951230, 904838, 860708, 818731, 778801, 740819, 704689, 670321,
    637629, 606531, 576950, 548812, 522046, 496586, 472367, 449329, 427415,
    406570, 386742, 367880, 349938, 332872, 316637, 301195, 286505, 272532,
    259241, 246597, 234571, 223131, 212248, 201897, 192050, 182684, 173774,
    165299, 157238, 149569, 142275, 135336, 128735, 122457, 116485, 110804,
    105400, 100259, 95370, 90718, 86294, 82085, 78082, 74274, 70652, 67206,
    63928, 60811, 57845, 55024, 52340, 49788 >>

\* From this count on, 1 - math.exp(-n/10) is exactly 1.0 in double precision.
ExpNeg10Vanishes == 375
\* From this count on, 1 - math.exp(-n/20) is exactly 1.0 in double precision.
ExpNeg20Vanishes == 749

\* math.exp(-n / 10) in millionths, rounded up, for n >= 0.  Past the table
\* the value is positive and below every threshold the calculators compare
\* with, so one millionth stands for it until it vanishes.
ExpNeg10(n) ==
    IF n < Len(ExpNeg10Table) THEN ExpNeg10Table[n + 1]
    ELSE IF n < ExpNeg10Vanishes THEN 1 ELSE 0

\* math.exp(-n / 20) in millionths, rounded up, for n >= 0.  For n in 717..748
\* the double additions of compute_iam_risk can round the sum up to the next
\* integer, which millionths do not show; the model's counts stay far below.
ExpNeg20(n) ==
    IF n < Len(ExpNeg20Table) THEN ExpNeg20Table[n + 1]
    ELSE IF n < ExpNeg20Vanishes THEN 1 ELSE 0

\* floor(10^6 * ln(k)) for k = 1..8
LnTable == << 0, 693147, 1098612, 1386294, 1609437, 1791759, 1945910, 2079441 >>

\* math.log(x) in millionths, rounded down; ValueError (math domain error)
\* for x <= 0.  Past the table the last entry is a lower bound of ln.
MathLog(x) ==
    IF x <= 0 THEN Raise("ValueError")
    ELSE IF x <= Len(LnTable) THEN Return(LnTable[x])
    ELSE Return(LnTable[Len(LnTable)])

-----------------------------------------------------------------------------
(* Component risk results *)

Result(score, severity, details) ==
    Return([score |-> score, severity |-> severity, details |-> details])

\* p.get("noncompliant_records", 0) summed over the entries of a list
RECURSIVE SumRecords(_)
SumRecords(entries) ==
    IF entries = <<>> THEN Return(0)
    ELSE LET rec == PyGet(Head(entries), "noncompliant_records", JInt(0))
             rest == SumRecords(Tail(entries))
         IN  IF Raised(rec) THEN rec
             ELSE IF rec.value.t # "int" THEN Raise("TypeError")
             ELSE IF Raised(rest) THEN rest
             ELSE Return(rec.value.v + rest.value)

\* top_policies[:3]
FirstThree(l) == SubSeq(l, 1, Min(3, Len(l)))

\* concentration >= 0.6
ConcentratedAtLeast(top_3_records, total_records) ==
    5 * top_3_records >= 3 * total_records

\* concentration > 0.6, for top_3_records / total_records with total > 0
Concentrated(top_3_records, total_records) ==
    5 * top_3_records > 3 * total_records

\* The frequency multiplier of compute_policy_risk, in tenths (10 or 12).
FrequencyMultiplier(top_policies) ==
    IF ~Truthy(top_policies) THEN Return(10)
    ELSE IF top_policies.t = "str" THEN Raise("AttributeError")
    ELSE IF top_policies.t # "list" THEN Raise("TypeError")
    ELSE LET top_3_records == SumRecords(FirstThree(top_policies.v))
             total_records == SumRecords(top_policies.v)
         IN  IF Raised(top_3_records) THEN top_3_records
             ELSE IF Raised(total_records) THEN total_records
             ELSE IF /\ total_records.value > 0
                     /\ Concentrated(top_3_records.value, total_records.value)
                  THEN Return(12)
                  ELSE Return(10)

\* severity of a policy score given in millionths
PolicySeverity(final_micro) ==
    IF final_micro <= 10 * Micro THEN "low"
    ELSE IF final_micro <= 25 * Micro THEN "medium"
    ELSE "high"

\* final_score = min(40, base_score * frequency_multiplier), in millionths
PolicyFinalScore(base_score, multiplier) ==
    Min(40 * Micro, (base_score * multiplier) \div 10)

compute_policy_risk(unique_noncompliant_policies, top_policies) ==
    LET parsed == PyInt(unique_noncompliant_policies) IN
    IF Raised(parsed) THEN parsed
    ELSE LET n == NonNeg(parsed.value) IN
    IF n = 0 THEN Result(0, "none", <<"No policy violations">>)
    ELSE LET base_score == 40 * (Micro - ExpNeg10(n))
             mult == FrequencyMultiplier(top_policies)
         IN  IF Raised(mult) THEN mult
             ELSE LET final_score == PolicyFinalScore(base_score, mult.value)
                  IN  Result(final_score \div Micro, PolicySeverity(final_score),
                             <<"unique violations", n, mult.value>>)

\* (drift_level or "").strip().lower(): only a string has .strip()
Drift(drift_level) ==
    IF ~Truthy(drift_level) THEN Return("")
    ELSE IF drift_level.t = "str" THEN Return(drift_level.v)
    ELSE Raise("AttributeError")

\* a count that is taken to be 1 when the mapping does not have it
IamCountDefaultOne(iam_counts, key) ==
    LET got == PyGet(iam_counts, key, JInt(1)) IN
    IF Raised(got) THEN got
    ELSE LET parsed == PyInt(got.value) IN
         IF Raised(parsed) THEN parsed ELSE Return(NonNeg(parsed.value))

\* max(0, int(iam_counts.get(key, 0)))
IamCount(iam_counts, key) ==
    LET got == PyGet(iam_counts, key, JInt(0)) IN
    IF Raised(got) THEN got
    ELSE LET parsed == PyInt(got.value) IN
         IF Raised(parsed) THEN parsed ELSE Return(NonNeg(parsed.value))

OwnerScore(owners) ==
    IF owners = 1 THEN 5
    ELSE IF owners <= 3 THEN 15
    ELSE IF owners <= 5 THEN 25
    ELSE 35

OwnerSeverity(owners) ==
    IF owners > 5 THEN "critical" ELSE IF owners > 3 THEN "high" ELSE "medium"

ContributorSeverity(contributors) ==
    IF contributors > 30 THEN "high"
    ELSE IF contributors > 15 THEN "medium"
    ELSE "low"

\* the higher of the owner severity and the contributor severity
IamSeverityHighest(owners, contributors) ==
    IF owners > 3 THEN OwnerSeverity(owners)
    ELSE IF contributors > 30 THEN "high"
    ELSE IF owners > 0 THEN "medium"
    ELSE IF contributors > 0 THEN ContributorSeverity(contributors)
    ELSE "none"

\* the severity compute_iam_risk reports
IamSeverity(owners, contributors) ==
    IF owners > 0 THEN OwnerSeverity(owners)
    ELSE IF contributors > 0 THEN ContributorSeverity(contributors)
    ELSE "none"

\* privilege_ratio >= 0.5
PrivilegePenaltyAtHalf(total_privileged, readers) ==
    IF /\ total_privileged > 0
       /\ readers > 0
       /\ 2 * total_privileged >= total_privileged + readers
    THEN 5 ELSE 0

\* privilege_ratio > 0.5, for total_privileged / (total_privileged + readers)
PrivilegePenalty(total_privileged, readers) ==
    IF /\ total_privileged > 0
       /\ readers > 0
       /\ 2 * total_privileged > total_privileged + readers
    THEN 5 ELSE 0

\* base_score of compute_iam_risk, in millionths
IamBaseScore(owners, contributors, readers) ==
    (IF owners > 0 THEN OwnerScore(owners) * Micro ELSE 0)
    + (IF contributors > 0
       THEN Min(15 * Micro, 15 * (Micro - ExpNeg20(contributors)))
       ELSE 0)
    + PrivilegePenalty(owners + contributors, readers) * Micro

\* final_score = min(35, int(base_score))
IamFinalScoreUncapped(base_score) == base_score \div Micro
IamFinalScore(base_score) == Min(35, base_score \div Micro)

\* compute_iam_risk() with the owner drift label read as critical
compute_iam_risk_by_drift(drift_level, iam_counts) ==
    LET drift == Drift(drift_level)
        owners == IamCount(iam_counts, "owners")
        contributors == IamCount(iam_counts, "contributors")
        readers == IamCount(iam_counts, "readers")
    IN  IF Raised(drift) THEN drift
        ELSE IF Raised(owners) THEN owners
        ELSE IF Raised(contributors) THEN contributors
        ELSE IF Raised(readers) THEN readers
        ELSE Result(IamFinalScore(IamBaseScore(owners.value, contributors.value, readers.value)),
                    IF drift.value = "owner" THEN "critical"
                    ELSE IamSeverity(owners.value, contributors.value),
                    <<"Owners", owners.value, "Contributors", contributors.value,
                      "Readers", readers.value, owners.value > 5>>)

compute_iam_risk(drift_level, iam_counts) ==
    LET drift == Drift(drift_level)
        owners == IamCount(iam_counts, "owners")
        contributors == IamCount(iam_counts, "contributors")
        readers == IamCount(iam_counts, "readers")
    IN  IF Raised(drift) THEN drift
        ELSE IF Raised(owners) THEN owners
        ELSE IF Raised(contributors) THEN contributors
        ELSE IF Raised(readers) THEN readers
        ELSE Result(IamFinalScore(IamBaseScore(owners.value, contributors.value, readers.value)),
                    IamSeverity(owners.value, contributors.value),
                    <<"Owners", owners.value, "Contributors", contributors.value,
                      "Readers", readers.value, owners.value > 5>>)

\* the logarithmic branch without its offset of 100
DefenderHighScoreNoOffset(h) ==
    IF h <= 5 THEN Return(h * 20 * Micro)
    ELSE LET ln == MathLog(h - 4) IN
         IF Raised(ln) THEN ln ELSE Return(20 * ln.value)

\* high_score of compute_defender_risk, in millionths
DefenderHighScore(h) ==
    IF h <= 5 THEN Return(h * 20 * Micro)
    ELSE LET ln == MathLog(h - 4) IN
         IF Raised(ln) THEN ln ELSE Return(100 * Micro + 20 * ln.value)

\* the logarithmic branch of the medium term without its offset of 80
DefenderMediumScoreNoOffset(m) ==
    IF m <= 10 THEN Return(m * 8 * Micro)
    ELSE LET ln == MathLog(m - 9) IN
         IF Raised(ln) THEN ln ELSE Return(8 * ln.value)

\* medium_score of compute_defender_risk, in millionths
DefenderMediumScore(m) ==
    IF m <= 10 THEN Return(m * 8 * Micro)
    ELSE LET ln == MathLog(m - 9) IN
         IF Raised(ln) THEN ln ELSE Return(80 * Micro + 8 * ln.value)

\* the arguments compute_defender_risk passes to math.log for h high and m
\* medium findings
DefenderLogArguments(h, m) ==
    (IF h <= 5 THEN {} ELSE {h - 4}) \cup (IF m <= 10 THEN {} ELSE {m - 9})

\* the bands with medium findings counted from above 15
DefenderSeverityAboveFifteen(h, m) ==
    IF h >= 5 THEN "critical"
    ELSE IF h >= 2 \/ m > 15 THEN "high"
    ELSE IF h >= 1 \/ m >= 5 THEN "medium"
    ELSE "low"

DefenderSeverity(h, m) ==
    IF h >= 5 THEN "critical"
    ELSE IF h >= 2 \/ m >= 15 THEN "high"
    ELSE IF h >= 1 \/ m >= 5 THEN "medium"
    ELSE "low"

\* final_score = min(35, int(total_score))
DefenderFinalScore(total_score) == Min(35, total_score \div Micro)

compute_defender_risk(high, medium, low) ==
    LET ph == PyInt(high)
        pm == PyInt(medium)
        pl == PyInt(low)
    IN  IF Raised(ph) THEN ph
        ELSE IF Raised(pm) THEN pm
        ELSE IF Raised(pl) THEN pl
        ELSE LET h == NonNeg(ph.value)
                 m == NonNeg(pm.value)
                 l == NonNeg(pl.value)
             IN  IF h = 0 /\ m = 0 /\ l = 0
                 THEN Result(0, "none", <<"No Defender alerts">>)
                 ELSE LET high_score == DefenderHighScore(h)
                          medium_score == DefenderMediumScore(m)
                          low_score == Min(10, l * 2) * Micro
                      IN  IF Raised(high_score) THEN high_score
                          ELSE IF Raised(medium_score) THEN medium_score
                          ELSE Result(DefenderFinalScore(high_score.value
                                          + medium_score.value + low_score),
                                      DefenderSeverity(h, m),
                                      <<"High", h, "Medium", m, "Low", l>>)

\* data.get(key, default) on the loaded document, a dict
DocGet(doc, key, default) == IF key \in DOMAIN doc THEN doc[key] ELSE default

\* `if x > 0: score += min(cap, x * weight)`: what the step adds to score
AddIfPositiveOrNegative(x, weight, cap) ==
    LET positive == PyGreater(x, 0) IN
    IF Raised(positive) THEN positive
    ELSE IF x.v # 0 THEN Return(Min(cap, x.v * weight)) ELSE Return(0)
AddIfPositive(x, weight, cap) ==
    LET positive == PyGreater(x, 0) IN
    IF Raised(positive) THEN positive
    ELSE IF positive.value THEN Return(Min(cap, x.v * weight)) ELSE Return(0)

\* the exposure step with 3 points from five public IPs on
PublicIpScoreFromFive(public_ips) ==
    LET many == PyGreater(public_ips, 4) IN
    IF Raised(many) THEN many
    ELSE IF many.value THEN Return(3)
    ELSE IF public_ips.v > 2 THEN Return(2) ELSE Return(0)

\* `if public_ips > 5: +3 elif public_ips > 2: +2`
PublicIpScore(public_ips) ==
    LET many == PyGreater(public_ips, 5) IN
    IF Raised(many) THEN many
    ELSE IF many.value THEN Return(3)
    ELSE IF public_ips.v > 2 THEN Return(2) ELSE Return(0)

NetworkSeverity(final_score) ==
    IF final_score >= 10 THEN "high" ELSE IF final_score >= 5 THEN "medium" ELSE "low"

\* final_score = min(15, score)
NetworkFinalScore(score) == Min(15, score)

compute_network_risk(doc) ==
    LET network == PyOr(DocGet(doc, "network", EmptyDict), EmptyDict)
        open_ports == PyGet(network, "open_high_risk_ports", JInt(0))
        public_ips == PyGet(network, "public_ip_count", JInt(0))
        missing_nsgs == PyGet(network, "missing_nsg_count", JInt(0))
    IN  IF Raised(open_ports) THEN open_ports
        ELSE LET ports_score == AddIfPositive(open_ports.value, 3, 10)
                 ip_score == PublicIpScore(public_ips.value)
                 nsg_score == AddIfPositive(missing_nsgs.value, 2, 5)
             IN  IF Raised(ports_score) THEN ports_score
                 ELSE IF Raised(ip_score) THEN ip_score
                 ELSE IF Raised(nsg_score) THEN nsg_score
                 ELSE LET score == ports_score.value + ip_score.value + nsg_score.value
                          final_score == NetworkFinalScore(score)
                      IN  IF score = 0
                          THEN Result(0, "none", <<"No network issues detected">>)
                          ELSE Result(final_score, NetworkSeverity(final_score),
                                      <<"Open risk ports", open_ports.value,
                                        "Public IPs", public_ips.value,
                                        "Missing NSGs", missing_nsgs.value>>)

\* the step taken from the threshold on
AddFlatFromThreshold(x, threshold, points) ==
    LET above == PyGreater(x, threshold - 1) IN
    IF Raised(above) THEN above
    ELSE IF above.value THEN Return(points) ELSE Return(0)

\* `if x > threshold: score += points`: what the step adds to score
AddFlat(x, threshold, points) ==
    LET above == PyGreater(x, threshold) IN
    IF Raised(above) THEN above
    ELSE IF above.value THEN Return(points) ELSE Return(0)

EncryptionSeverity(final_score) ==
    IF final_score >= 7 THEN "high" ELSE IF final_score >= 4 THEN "medium" ELSE "low"

\* final_score = min(10, score)
EncryptionFinalScore(score) == Min(10, score)

compute_encryption_risk(doc) ==
    LET encryption == PyOr(DocGet(doc, "encryption", EmptyDict), EmptyDict)
        unencrypted_storage == PyGet(encryption, "unencrypted_storage_accounts", JInt(0))
        weak_tls == PyGet(encryption, "weak_tls_configs", JInt(0))
        no_cmk == PyGet(encryption, "no_customer_managed_keys", JInt(0))
    IN  IF Raised(unencrypted_storage) THEN unencrypted_storage
        ELSE LET storage_score == AddFlat(unencrypted_storage.value, 0, 5)
                 tls_score == AddFlat(weak_tls.value, 0, 3)
                 cmk_score == AddFlat(no_cmk.value, 3, 2)
             IN  IF Raised(storage_score) THEN storage_score
                 ELSE IF Raised(tls_score) THEN tls_score
                 ELSE IF Raised(cmk_score) THEN cmk_score
                 ELSE LET score == storage_score.value + tls_score.value + cmk_score.value
                          final_score == EncryptionFinalScore(score)
                      IN  IF score = 0
                          THEN Result(0, "none", <<"Encryption controls adequate">>)
                          ELSE Result(final_score, EncryptionSeverity(final_score),
                                      <<"Unencrypted storage", unencrypted_storage.value,
                                        "Weak TLS", weak_tls.value>>)

-----------------------------------------------------------------------------
(* Composite level and risk drivers *)

\* component_severities.count("critical")
CountCritical(component_severities) ==
    Cardinality({i \in DOMAIN component_severities : component_severities[i] = "critical"})

\* the thresholds of compute_composite_risk_level below the critical override
LevelByScore(score) ==
    IF score >= 75 THEN "Critical"
    ELSE IF score >= 60 THEN "High"
    ELSE IF score >= 40 THEN "Medium-High"
    ELSE IF score >= 25 THEN "Medium"
    ELSE IF score >= 10 THEN "Low-Medium"
    ELSE "Low"

compute_composite_risk_level_no_floor(score, component_severities) ==
    IF CountCritical(component_severities) > 0 THEN "Critical" ELSE LevelByScore(score)
compute_composite_risk_level(score, component_severities) ==
    IF CountCritical(component_severities) > 0 /\ score >= 50 THEN "Critical"
    ELSE LevelByScore(score)

ComponentNames == <<"policy", "iam", "defender", "network", "encryption">>

RECURSIVE SumScores(_)
\* sum(c["score"] for c in components.values())
SumScores(components) ==
    IF components = <<>> THEN 0
    ELSE Head(components).result.score + SumScores(Tail(components))

\* Pairs (score, total) at which (score / total) * 100 falls just below the
\* tie in double precision, so that round(..., 1) goes down instead of to even.
RoundsBelowTie == {<<23, 80>>}

\* the percentage cut to one decimal instead of rounded
PercentageTruncated(score, total) == (score * 1000) \div total

\* round((score / total) * 100, 1) in tenths: round-half-even
Percentage(score, total) ==
    LET q == (score * 1000) \div total
        r == (score * 1000) % total
    IN  IF 2 * r > total THEN q + 1
        ELSE IF 2 * r < total THEN q
        ELSE IF <<score, total>> \in RoundsBelowTie THEN q
        ELSE IF q % 2 = 1 THEN q + 1 ELSE q

\* index of the last component of the highest score
LastMax(components) ==
    CHOOSE i \in DOMAIN components :
        /\ \A j \in DOMAIN components :
               components[j].result.score <= components[i].result.score
        /\ \A j \in (i + 1)..Len(components) :
               components[j].result.score < components[i].result.score

\* index of the first component of the highest score
FirstMax(components) ==
    CHOOSE i \in DOMAIN components :
        /\ \A j \in DOMAIN components :
               components[j].result.score <= components[i].result.score
        /\ \A j \in 1..(i - 1) :
               components[j].result.score < components[i].result.score

Without(seq, i) == SubSeq(seq, 1, i - 1) \o SubSeq(seq, i + 1, Len(seq))

RECURSIVE SortedByScore(_)
\* sorted(components.items(), key=score, reverse=True): stable, so components
\* of equal score keep their order
SortedByScore(components) ==
    IF components = <<>> THEN <<>>
    ELSE LET i == FirstMax(components)
         IN  <<components[i]>> \o SortedByScore(Without(components, i))

Driver(c) ==
    [component |-> c.name, score |-> c.result.score, severity |-> c.result.severity]

RECURSIVE PositiveDrivers(_)
\* [driver for name, comp in seq if comp["score"] > 0]
PositiveDrivers(seq) ==
    IF seq = <<>> THEN <<>>
    ELSE IF Head(seq).result.score > 0
         THEN <<Driver(Head(seq))>> \o PositiveDrivers(Tail(seq))
         ELSE PositiveDrivers(Tail(seq))

generate_risk_trends(score, components) ==
    LET total == SumScores(components)
        names == IF total > 0 THEN {components[i].name : i \in DOMAIN components} ELSE {}
        comp(name) == (CHOOSE i \in DOMAIN components : components[i].name = name)
    IN  [distribution |->
             [name \in names |->
                 LET c == components[comp(name)].result
                 IN  [score |-> c.score,
                      percentage |-> Percentage(c.score, total),
                      severity |-> c.severity]],
         top_risk_drivers |->
             PositiveDrivers(FirstThree(SortedByScore(components)))]

-----------------------------------------------------------------------------
(* main(): one document in, one report out *)

\* max_possible = 40 + 35 + 35 + 15 + 10
max_possible == 40 + 35 + 35 + 15 + 10

\* score = min(100, int((total_raw / max_possible) * 100)); the double
\* computation agrees with the exact quotient for every total_raw in 0..135
NormalizedScoreRounded(total_raw) ==
    Min(100, (total_raw * 200 + max_possible) \div (2 * max_possible))
NormalizedScore(total_raw) == Min(100, (total_raw * 100) \div max_possible)

\* total_raw = sum(c["score"] for c in components.values())
TotalRaw(components) == SumScores(components)

\* severities = [c["severity"] for c in components.values()]
Severities(components) == [i \in DOMAIN components |-> components[i].result.severity]

\* raw_inputs with the counts clamped as the calculators clamp them
RawInputsClamped(doc, inputs) ==
    [policy |-> [unique_noncompliant_policies |-> NonNeg(PyInt(inputs.unique_nc).value),
                 top_noncompliant_policies |-> inputs.top_policies],
     iam |-> [drift |-> inputs.iam_drift,
              counts |-> inputs.iam_counts,
              owner_principals_sample |-> inputs.owner_sample,
              contributor_principals_sample |-> inputs.contributor_sample],
     defender |-> [high |-> NonNeg(PyInt(inputs.defender_high).value),
                   medium |-> NonNeg(PyInt(inputs.defender_medium).value),
                   low |-> NonNeg(PyInt(inputs.defender_low).value)],
     network |-> DocGet(doc, "network", EmptyDict),
     encryption |-> DocGet(doc, "encryption", EmptyDict)]

\* the raw_inputs section of the report, from the document and the locals
\* main() read from it
RawInputs(doc, inputs) ==
    [policy |-> [unique_noncompliant_policies |-> PyInt(inputs.unique_nc).value,
                 top_noncompliant_policies |-> inputs.top_policies],
     iam |-> [drift |-> inputs.iam_drift,
              counts |-> inputs.iam_counts,
              owner_principals_sample |-> inputs.owner_sample,
              contributor_principals_sample |-> inputs.contributor_sample],
     defender |-> [high |-> PyInt(inputs.defender_high).value,
                   medium |-> PyInt(inputs.defender_medium).value,
                   low |-> PyInt(inputs.defender_low).value],
     network |-> DocGet(doc, "network", EmptyDict),
     encryption |-> DocGet(doc, "encryption", EmptyDict)]

\* The body of main() after load_real_inputs(): the report it prints for the
\* document, or the exception that ends the run.
score(doc) ==
    LET policy == PyOr(DocGet(doc, "policy", EmptyDict), EmptyDict)
        unique_nc == PyGet(policy, "unique_noncompliant_policies", JInt(0))
        top_policies == PyGet(policy, "top_noncompliant_policies", EmptyList)
        iam_drift == DocGet(doc, "iam_drift", JStr("none"))
        iam_counts == PyOr(DocGet(doc, "iam_counts", EmptyDict), EmptyDict)
        owner_sample == PyOr(DocGet(doc, "owner_principals_sample", EmptyList), EmptyList)
        contributor_sample ==
            PyOr(DocGet(doc, "contributor_principals_sample", EmptyList), EmptyList)
        defender == PyOr(DocGet(doc, "defender", EmptyDict), EmptyDict)
        defender_high == PyGet(defender, "high", JInt(0))
        defender_medium == PyGet(defender, "medium", JInt(0))
        defender_low == PyGet(defender, "low", JInt(0))
    IN  IF Raised(unique_nc) THEN unique_nc
        ELSE IF Raised(defender_high) THEN defender_high
        ELSE
    LET policy_result == compute_policy_risk(unique_nc.value, top_policies.value)
        iam_result == compute_iam_risk(iam_drift, iam_counts)
        defender_result == compute_defender_risk(defender_high.value,
                               defender_medium.value, defender_low.value)
        network_result == compute_network_risk(doc)
        encryption_result == compute_encryption_risk(doc)
    IN  IF Raised(policy_result) THEN policy_result
        ELSE IF Raised(iam_result) THEN iam_result
        ELSE IF Raised(defender_result) THEN defender_result
        ELSE IF Raised(network_result) THEN network_result
        ELSE IF Raised(encryption_result) THEN encryption_result
        ELSE
    LET components == <<
            [name |-> "policy", result |-> policy_result.value],
            [name |-> "iam", result |-> iam_result.value],
            [name |-> "defender", result |-> defender_result.value],
            [name |-> "network", result |-> network_result.value],
            [name |-> "encryption", result |-> encryption_result.value] >>
        total_raw == TotalRaw(components)
        normalized == NormalizedScore(total_raw)
        risk_lvl == compute_composite_risk_level(normalized, Severities(components))
        trends == generate_risk_trends(normalized, components)
    IN  Return(
         [subscription_id |-> DocGet(doc, "subscription_id", JStr("unknown")),
          resource_group |-> DocGet(doc, "resource_group", JStr("unknown")),
          risk_score |-> normalized,
          risk_level |-> risk_lvl,
          component_scores |->
              [policy_risk |-> policy_result.value.score,
               iam_risk |-> iam_result.value.score,
               defender_risk |-> defender_result.value.score,
               network_risk |-> network_result.value.score,
               encryption_risk |-> encryption_result.value.score],
          component_details |->
              [policy |-> policy_result.value,
               iam |-> iam_result.value,
               defender |-> defender_result.value,
               network |-> network_result.value,
               encryption |-> encryption_result.value],
          risk_analysis |->
              [total_raw_score |-> total_raw,
               max_possible_score |-> max_possible,
               normalized_score |-> normalized,
               risk_distribution |-> trends.distribution,
               top_risk_drivers |-> trends.top_risk_drivers],
          raw_inputs |->
              RawInputs(doc, [unique_nc |-> unique_nc.value,
                              top_policies |-> top_policies.value,
                              iam_drift |-> iam_drift,
                              iam_counts |-> iam_counts,
                              owner_sample |-> owner_sample,
                              contributor_sample |-> contributor_sample,
                              defender_high |-> defender_high.value,
                              defender_medium |-> defender_medium.value,
                              defender_low |-> defender_low.value])])

-----------------------------------------------------------------------------
(* Raw signal documents *)

\* marks a key the document does not have
Absent == [t |-> "absent"]

\* the JSON object with the fields that are not Absent
Object(fields) ==
    LET present == {k \in DOMAIN fields : fields[k] # Absent}
    IN  [k \in present |-> fields[k]]

PolicyEntry(records) ==
    JDict([policyName |-> JStr("p"), noncompliant_records |-> JInt(records)])

\* first three entries hold 90 of 100 records
ConcentratedTop == JList(<<PolicyEntry(50), PolicyEntry(30), PolicyEntry(10), PolicyEntry(10)>>)
\* first three entries hold exactly 60% of the records
SpreadTop ==
    JList(<<PolicyEntry(10), PolicyEntry(10), PolicyEntry(10), PolicyEntry(10), PolicyEntry(10)>>)
\* first three entries hold 61 of 100 records
NarrowTop == JList(<<PolicyEntry(31), PolicyEntry(20), PolicyEntry(10), PolicyEntry(39)>>)
\* entries without records
ZeroTop == JList(<<PolicyEntry(0), PolicyEntry(0)>>)
\* fewer than three entries, one without the records field
ShortTop == JList(<<PolicyEntry(4), JDict([policyName |-> JStr("q")])>>)

PolicySection(n, top) ==
    JDict(Object([unique_noncompliant_policies |-> n, top_noncompliant_policies |-> top]))

IamCountsWith(owners, contributors, readers, custom_roles) ==
    JDict(Object([owners |-> owners, contributors |-> contributors,
                  readers |-> readers, custom_roles |-> custom_roles]))

IamCounts(owners, contributors, readers) ==
    IamCountsWith(owners, contributors, readers, JInt(1))

DefenderSectionWith(high, medium, low, categories) ==
    JDict(Object([high |-> high, medium |-> medium, low |-> low,
                  categories |-> categories]))

DefenderSection(high, medium, low) ==
    DefenderSectionWith(high, medium, low, JDict([Compute |-> JInt(1)]))

NetworkSection(ports, ips, nsgs, total) ==
    JDict(Object([open_high_risk_ports |-> ports, public_ip_count |-> ips,
                  missing_nsg_count |-> nsgs, total_nsgs |-> total, total_nics |-> total]))

EncryptionSection(storage, tls, cmk, total) ==
    JDict(Object([unencrypted_storage_accounts |-> storage, weak_tls_configs |-> tls,
                  no_customer_managed_keys |-> cmk, https_only_violations |-> total,
                  total_storage_accounts |-> total]))

Principal == JDict([principalId |-> JStr("id"), principalType |-> JStr("User")])

\* Sections of the documents scored end to end.  The counts are chosen so that
\* the composite score lands on both sides of every risk-level threshold, with
\* and without a critical component.
DocPolicies ==
    { Absent,
      PolicySection(JInt(0), ConcentratedTop),
      PolicySection(JInt(-1), ConcentratedTop),
      PolicySection(JInt(3), SpreadTop),
      PolicySection(JInt(10), ConcentratedTop),
      PolicySection(JInt(18), ConcentratedTop) }

DocIamCounts ==
    { Absent,
      IamCountsWith(JInt(0), JInt(0), JInt(0), JInt(0)),
      IamCounts(JInt(2), JInt(5), JInt(3)),
      IamCounts(JInt(5), JInt(40), JInt(2)),
      IamCounts(JInt(6), JInt(10), JInt(5)),
      IamCounts(JInt(-1), JInt(-1), JInt(-1)) }

DocDefenders ==
    { Absent,
      DefenderSectionWith(JInt(0), JInt(0), JInt(0), EmptyDict),
      DefenderSection(JInt(1), JInt(0), JInt(0)),
      DefenderSection(JInt(0), JInt(1), JInt(0)),
      DefenderSection(JInt(0), JInt(3), JInt(2)),
      DefenderSection(JInt(4), JInt(0), JInt(0)),
      DefenderSection(JInt(6), JInt(3), JInt(0)),
      DefenderSection(JInt(-1), JInt(0), JInt(1)) }

DocNetworks ==
    { Absent,
      NetworkSection(JInt(0), JInt(0), JInt(0), JInt(0)),
      NetworkSection(JInt(5), JInt(6), JInt(2), JInt(4)),
      NetworkSection(JInt(1), JInt(3), JInt(0), JInt(4)),
      NetworkSection(JInt(0), JInt(0), JInt(1), JInt(4)),
      NetworkSection(JInt(-1), JInt(-1), JInt(-1), JInt(0)) }

DocEncryptions ==
    { Absent,
      EncryptionSection(JInt(0), JInt(0), JInt(0), JInt(0)),
      EncryptionSection(JInt(1), JInt(1), JInt(5), JInt(6)),
      EncryptionSection(JInt(0), JInt(1), JInt(4), JInt(6)),
      EncryptionSection(Absent, Absent, JInt(4), Absent) }

\* identifiers, drift label and principal samples, which scoring only echoes
DocIdentities ==
    { [subscription_id |-> Absent, resource_group |-> Absent, iam_drift |-> Absent,
       owner_principals_sample |-> Absent, contributor_principals_sample |-> Absent],
      [subscription_id |-> JStr("sub"), resource_group |-> JStr("rg"),
       iam_drift |-> JStr("owner"),
       owner_principals_sample |-> JList(<<Principal>>),
       contributor_principals_sample |-> JNull] }

Document(identity, policy, iam_counts, defender, network, encryption) ==
    Object([subscription_id |-> identity.subscription_id,
            resource_group |-> identity.resource_group,
            policy |-> policy,
            iam_drift |-> identity.iam_drift,
            iam_counts |-> iam_counts,
            owner_principals_sample |-> identity.owner_principals_sample,
            contributor_principals_sample |-> identity.contributor_principals_sample,
            defender |-> defender,
            network |-> network,
            encryption |-> encryption])

\* documents whose sections are mappings of integer counts, or absent
WellFormedDocs ==
    { Document(x, p, i, d, n, e) :
        x \in DocIdentities, p \in DocPolicies, i \in DocIamCounts,
        d \in DocDefenders, n \in DocNetworks, e \in DocEncryptions }

\* the scenario document of the specification's end-to-end example
ScenarioDoc ==
    Document(CHOOSE x \in DocIdentities : x.iam_drift = JStr("owner"),
             PolicySection(JInt(10), ConcentratedTop),
             IamCounts(JInt(6), JInt(10), JInt(5)),
             DefenderSection(JInt(6), JInt(3), JInt(0)),
             NetworkSection(JInt(5), JInt(6), JInt(2), JInt(4)),
             EncryptionSection(JInt(1), JInt(1), JInt(5), JInt(6)))

SectionKeys == {"policy", "iam_counts", "defender", "network", "encryption"}

\* values a section can hold that are not a mapping
NonMappings == {JNull, EmptyList, JList(<<JInt(1)>>), JStr("n/a")}
\* values a count can hold that are not an integer
NonCounts == {JNull, JStr("abc"), JStr("3")}

\* the scenario document with one section replaced by a value that is no
\* mapping, or with one count of one section replaced by a value that is no
\* integer
MalformedDocs ==
    { [ScenarioDoc EXCEPT ![k] = bad] : k \in SectionKeys, bad \in NonMappings }
    \cup
    { [ScenarioDoc EXCEPT ![k] = JDict([ScenarioDoc[k].v EXCEPT ![f] = bad])] :
        <<k, f>> \in { <<"policy", "unique_noncompliant_policies">>,
                       <<"iam_counts", "owners">>, <<"iam_counts", "readers">>,
                       <<"defender", "high">>, <<"defender", "low">>,
                       <<"network", "open_high_risk_ports">>,
                       <<"network", "missing_nsg_count">>,
                       <<"encryption", "weak_tls_configs">>,
                       <<"encryption", "no_customer_managed_keys">> },
        bad \in NonCounts }

\* what real_inputs.json can hold
Docs == WellFormedDocs \cup MalformedDocs

\* the encodings load_real_inputs() opens the file with, in its order
Encodings == <<"utf-8", "utf-8-sig", "utf-16", "utf-16-le", "utf-16-be">>

\* What open(path, encoding=enc) followed by json.load(f) gives for each of
\* Encodings, by the bytes of the file: "json" when the document is parsed,
\* otherwise the exception the decoder or the parser raises.
\* UTF-8 text without a byte-order mark
Utf8File ==
    <<"json", "json", "UnicodeError", "JSONDecodeError", "JSONDecodeError">>
\* UTF-8 text behind a byte-order mark: utf-8 decodes the mark as U+FEFF and
\* the parser refuses it
Utf8BomFile ==
    <<"JSONDecodeError", "json", "UnicodeDecodeError", "UnicodeDecodeError", "UnicodeDecodeError">>
\* UTF-16 text behind a byte-order mark, with a character outside ASCII
Utf16BomFile ==
    <<"UnicodeDecodeError", "UnicodeDecodeError", "json", "JSONDecodeError", "JSONDecodeError">>
\* little-endian UTF-16 text without a mark, with a character outside ASCII:
\* utf-16 decodes it and then refuses the stream for its missing mark
Utf16LeFile ==
    <<"UnicodeDecodeError", "UnicodeDecodeError", "UnicodeError", "json", "JSONDecodeError">>
\* little-endian UTF-16 text without a mark, all ASCII: its bytes are valid
\* UTF-8 with NUL characters
Utf16LeAsciiFile ==
    <<"JSONDecodeError", "JSONDecodeError", "UnicodeError", "json", "JSONDecodeError">>
\* big-endian UTF-16 text without a mark whose bytes, read little-endian, hold
\* an unpaired surrogate
Utf16BeFile ==
    <<"UnicodeDecodeError", "UnicodeDecodeError", "UnicodeDecodeError", "UnicodeDecodeError", "json">>
\* bytes that no encoding of the five decodes
UndecodableFile ==
    <<"UnicodeDecodeError", "UnicodeDecodeError", "UnicodeDecodeError", "UnicodeDecodeError", "UnicodeDecodeError">>
\* UTF-8 text that is not JSON
NotJsonFile ==
    <<"JSONDecodeError", "JSONDecodeError", "UnicodeError", "JSONDecodeError", "JSONDecodeError">>

\* what os.path.exists(path) and open(path) give a run: nothing yet, no file,
\* or the file: the document its text stands for and what each encoding reads
NotLooked == [exists |-> "unknown"]
NoFile == [exists |-> "no"]
FileWith(doc, reads) == [exists |-> "yes", doc |-> doc, reads |-> reads]

\* the files a run can find: every document as plain UTF-8, and one document
\* in each of the other forms
Files ==
    { FileWith(doc, Utf8File) : doc \in Docs }
    \cup { FileWith(ScenarioDoc, reads) :
              reads \in { Utf8BomFile, Utf16BomFile, Utf16LeFile, Utf16LeAsciiFile,
                          Utf16BeFile } }
    \cup { FileWith(Absent, reads) : reads \in { UndecodableFile, NotJsonFile } }

NoReport == [kind |-> "none"]
NoCall == [fn |-> "none"]

-----------------------------------------------------------------------------
(* Runs of main() *)

\* documents whose first report the history variables can remember
WatchDocs ==
    { ScenarioDoc, [ScenarioDoc EXCEPT !["defender"] = JList(<<JInt(1)>>)] }

\* data = load_real_inputs(): the run reads the document the file holds
\* load_real_inputs() that takes a missing file for an empty document
load_real_inputs_default ==
    /\ pc = "idle"
    /\ \/ found' = NoFile /\ data' = <<>>
       \/ \E doc \in Docs : found' = FileWith(doc, Utf8File) /\ data' = doc
    /\ pc' = "loaded"
    /\ UNCHANGED <<report, call, ret, watched, memo, between>>

\* The loop of load_real_inputs() from the i-th encoding on: the document of
\* the first encoding that parses; UnicodeDecodeError moves on to the next
\* encoding and any other exception leaves the function; after the last
\* encoding the function raises UnicodeDecodeError itself.
RECURSIVE TryEncodings(_, _)
TryEncodings(file, i) ==
    IF i > Len(Encodings) THEN Raise("UnicodeDecodeError")
    ELSE IF file.reads[i] = "json" THEN Return(file.doc)
    ELSE IF file.reads[i] = "UnicodeDecodeError" THEN TryEncodings(file, i + 1)
    ELSE Raise(file.reads[i])

\* data = load_real_inputs(): without the file the run ends with
\* FileNotFoundError, which main() does not catch; otherwise the run reads the
\* document under the first encoding that gives one, or ends with the
\* exception the loop raised
load_real_inputs ==
    /\ pc = "idle"
    /\ \/ /\ found' = NoFile
          /\ report' = Raise("FileNotFoundError")
          /\ pc' = "raised"
          /\ data' = data
       \/ \E file \in Files :
             LET got == TryEncodings(file, 1) IN
             /\ found' = file
             /\ IF Raised(got)
                THEN report' = got /\ pc' = "raised" /\ data' = data
                ELSE report' = report /\ pc' = "loaded" /\ data' = got.value
    /\ UNCHANGED <<call, ret, watched, memo, between>>

\* main() with a module-level total that outlives the run
main_with_carry ==
    /\ pc = "loaded"
    /\ LET fresh == score(data)
           seen == memo # NoReport /\ ~Raised(memo)
       IN  report' =
               IF Raised(fresh) \/ ~seen THEN fresh
               ELSE Return([fresh.value EXCEPT
                        !.risk_analysis.total_raw_score =
                            @ + memo.value.risk_analysis.total_raw_score])
    /\ pc' = IF Raised(report') THEN "raised" ELSE "done"
    /\ memo' = IF data = watched /\ memo = NoReport THEN report' ELSE memo
    /\ between' = (between \/ (memo # NoReport /\ data # watched))
    /\ UNCHANGED <<found, data, call, ret, watched>>

\* The rest of main(): score the document and print the report, or end with
\* the exception a step raised.  memo keeps the first report of the watched
\* document, and between tells whether another document was scored since.
main ==
    /\ pc = "loaded"
    /\ report' = score(data)
    /\ pc' = IF Raised(report') THEN "raised" ELSE "done"
    /\ memo' = IF data = watched /\ memo = NoReport THEN report' ELSE memo
    /\ between' = (between \/ (memo # NoReport /\ data # watched))
    /\ UNCHANGED <<found, data, call, ret, watched>>

\* the process ends; the next run starts with nothing but the input file
exit ==
    /\ pc \in {"done", "raised"}
    /\ pc' = "idle"
    /\ found' = NotLooked
    /\ data' = <<>>
    /\ report' = NoReport
    /\ UNCHANGED <<call, ret, watched, memo, between>>

Init ==
    /\ pc = "idle"
    /\ found = NotLooked
    /\ data = <<>>
    /\ report = NoReport
    /\ call = NoCall
    /\ ret = NoReport
    /\ watched = Absent
    /\ memo = NoReport
    /\ between = FALSE

Next == load_real_inputs \/ main \/ exit

Spec == Init /\ [][Next]_vars

\* runs of main() with any of the watched documents remembered
InitRuns ==
    /\ pc = "idle"
    /\ found = NotLooked
    /\ data = <<>>
    /\ report = NoReport
    /\ call = NoCall
    /\ ret = NoReport
    /\ watched \in WatchDocs
    /\ memo = NoReport
    /\ between = FALSE

SpecRuns == InitRuns /\ [][Next]_vars

-----------------------------------------------------------------------------
(* The calculators, called one at a time *)

MaxPolicies == 20
MaxOwners == 7
MaxContributors == 32
MaxReaders == 8
MaxHigh == 7
MaxMedium == 16
MaxLow == 6
MaxPorts == 5
MaxPublicIps == 7
MaxNsgs == 3
MaxStorage == 2
MaxTls == 2
MaxCmk == 5

Counts(max) == {JInt(n) : n \in -1..max}

TopLists == {JNull, EmptyList, ConcentratedTop, SpreadTop, NarrowTop, ZeroTop, ShortTop}

PolicyCalls ==
    { [fn |-> "compute_policy_risk", args |-> <<n, top>>] :
        n \in Counts(MaxPolicies) \cup NonCounts, top \in TopLists }

IamCalls ==
    { [fn |-> "compute_iam_risk", args |-> <<drift, IamCounts(o, c, r)>>] :
        drift \in {JStr("none"), JStr("owner")},
        o \in Counts(MaxOwners), c \in Counts(MaxContributors), r \in Counts(MaxReaders) }
    \cup
    { [fn |-> "compute_iam_risk", args |-> <<drift, counts>>] :
        drift \in {JNull, JStr("contributor"), JInt(1)},
        counts \in { EmptyDict, IamCounts(Absent, JInt(20), Absent),
                     IamCounts(JInt(2), JNull, JInt(1)),
                     IamCounts(JStr("3"), JInt(1), JStr("abc")),
                     JList(<<JInt(1)>>) } }

DefenderCalls ==
    { [fn |-> "compute_defender_risk", args |-> <<h, m, l>>] :
        h \in Counts(MaxHigh), m \in Counts(MaxMedium), l \in Counts(MaxLow) }
    \cup
    { [fn |-> "compute_defender_risk", args |-> <<h, JInt(2), l>>] :
        h \in NonCounts, l \in NonCounts \cup {JInt(0)} }

NetworkCalls ==
    { [fn |-> "compute_network_risk",
       args |-> <<Object([network |-> NetworkSection(p, i, n, JInt(4))])>>] :
        p \in Counts(MaxPorts), i \in Counts(MaxPublicIps), n \in Counts(MaxNsgs) }
    \cup
    { [fn |-> "compute_network_risk", args |-> <<Object([network |-> section])>>] :
        section \in NonMappings \cup
            { Absent, EmptyDict,
              NetworkSection(Absent, JInt(6), Absent, Absent),
              NetworkSection(JNull, JInt(6), JInt(1), JInt(4)),
              NetworkSection(JInt(1), JStr("3"), JInt(1), JInt(4)) } }

EncryptionCalls ==
    { [fn |-> "compute_encryption_risk",
       args |-> <<Object([encryption |-> EncryptionSection(u, w, k, JInt(6))])>>] :
        u \in Counts(MaxStorage), w \in Counts(MaxTls), k \in Counts(MaxCmk) }
    \cup
    { [fn |-> "compute_encryption_risk", args |-> <<Object([encryption |-> section])>>] :
        section \in NonMappings \cup
            { Absent, EmptyDict,
              EncryptionSection(Absent, JInt(1), Absent, Absent),
              EncryptionSection(JInt(1), JNull, JInt(1), JInt(6)),
              EncryptionSection(JInt(1), JInt(0), JStr("abc"), JInt(6)) } }

Calls == PolicyCalls \cup IamCalls \cup DefenderCalls \cup NetworkCalls \cup EncryptionCalls

\* what calling the calculator with the arguments returns or raises
Apply(c) ==
    CASE c.fn = "compute_policy_risk" -> compute_policy_risk(c.args[1], c.args[2])
      [] c.fn = "compute_iam_risk" -> compute_iam_risk(c.args[1], c.args[2])
      [] c.fn = "compute_defender_risk" ->
            compute_defender_risk(c.args[1], c.args[2], c.args[3])
      [] c.fn = "compute_network_risk" -> compute_network_risk(c.args[1])
      [] c.fn = "compute_encryption_risk" -> compute_encryption_risk(c.args[1])

call_compute_policy_risk ==
    /\ call.fn = "compute_policy_risk"
    /\ ret = NoReport
    /\ ret' = compute_policy_risk(call.args[1], call.args[2])
    /\ UNCHANGED <<pc, found, data, report, call, watched, memo, between>>

call_compute_iam_risk ==
    /\ call.fn = "compute_iam_risk"
    /\ ret = NoReport
    /\ ret' = compute_iam_risk(call.args[1], call.args[2])
    /\ UNCHANGED <<pc, found, data, report, call, watched, memo, between>>

call_compute_defender_risk ==
    /\ call.fn = "compute_defender_risk"
    /\ ret = NoReport
    /\ ret' = compute_defender_risk(call.args[1], call.args[2], call.args[3])
    /\ UNCHANGED <<pc, found, data, report, call, watched, memo, between>>

call_compute_network_risk ==
    /\ call.fn = "compute_network_risk"
    /\ ret = NoReport
    /\ ret' = compute_network_risk(call.args[1])
    /\ UNCHANGED <<pc, found, data, report, call, watched, memo, between>>

call_compute_encryption_risk ==
    /\ call.fn = "compute_encryption_risk"
    /\ ret = NoReport
    /\ ret' = compute_encryption_risk(call.args[1])
    /\ UNCHANGED <<pc, found, data, report, call, watched, memo, between>>

InitCalc ==
    /\ pc = "idle"
    /\ found = NotLooked
    /\ data = <<>>
    /\ report = NoReport
    /\ call \in Calls
    /\ ret = NoReport
    /\ watched = Absent
    /\ memo = NoReport
    /\ between = FALSE

NextCalc ==
    \/ call_compute_policy_risk
    \/ call_compute_iam_risk
    \/ call_compute_defender_risk
    \/ call_compute_network_risk
    \/ call_compute_encryption_risk

SpecCalc == InitCalc /\ [][NextCalc]_vars

-----------------------------------------------------------------------------
(* Properties of the calculators *)

Returned(r) == r # NoReport /\ ~Raised(r)

\* the cap the specification gives each component
Cap(fn) ==
    CASE fn = "compute_policy_risk" -> 40
      [] fn = "compute_iam_risk" -> 35
      [] fn = "compute_defender_risk" -> 35
      [] fn = "compute_network_risk" -> 15
      [] fn = "compute_encryption_risk" -> 10

\* C1: whatever the counts (positive, zero, negative or absent), the score a
\* calculator returns is an integer from 0 to the cap of its component:
\* policy 40, IAM 35, defender 35, network 15, encryption 10.
C1_ScoreWithinCap ==
    Returned(ret) => ret.value.score \in 0..Cap(call.fn)

\* C1 witness: scenario B, whose raw IAM sum of 45 is cut to the cap of 35
C1_CappedIam ==
    /\ call.fn = "compute_iam_risk"
    /\ call.args[2] = IamCounts(JInt(6), JInt(10), JInt(5))
    /\ Returned(ret)
    /\ ret.value.score = 35

\* the count a calculator call holds at a position: an argument, or a field
\* of the section it reads
IsInt(x) == x.t = "int"

\* the driving counts of a call, as the paths of its integer arguments
DrivingFields(fn) ==
    CASE fn = "compute_iam_risk" -> {"owners", "contributors"}
      [] fn = "compute_network_risk" ->
            {"open_high_risk_ports", "public_ip_count", "missing_nsg_count"}
      [] fn = "compute_encryption_risk" ->
            {"unencrypted_storage_accounts", "weak_tls_configs", "no_customer_managed_keys"}
      [] OTHER -> {}

SectionKey(fn) ==
    CASE fn = "compute_network_risk" -> "network"
      [] fn = "compute_encryption_risk" -> "encryption"

\* the section of counts a call reads, when it is a mapping
SectionOf(c) ==
    CASE c.fn = "compute_iam_risk" -> c.args[2]
      [] c.fn \in {"compute_network_risk", "compute_encryption_risk"} ->
            DocGet(c.args[1], SectionKey(c.fn), EmptyDict)
      [] OTHER -> EmptyDict

\* the call with the section of counts replaced
WithSection(c, section) ==
    CASE c.fn = "compute_iam_risk" -> [c EXCEPT !.args[2] = section]
      [] c.fn \in {"compute_network_risk", "compute_encryption_risk"} ->
            [c EXCEPT !.args[1] = Object([x \in {SectionKey(c.fn)} |-> section])]

\* the calls that differ from c in one driving count, which is one higher
RaisedCalls(c) ==
    CASE c.fn = "compute_policy_risk" ->
            IF IsInt(c.args[1])
            THEN {[c EXCEPT !.args[1] = JInt(c.args[1].v + 1)]} ELSE {}
      [] c.fn = "compute_defender_risk" ->
            { [c EXCEPT !.args[i] = JInt(c.args[i].v + 1)] :
                i \in {j \in 1..3 : IsInt(c.args[j])} }
      [] OTHER ->
            LET section == SectionOf(c) IN
            IF section.t # "dict" THEN {}
            ELSE { WithSection(c, JDict([section.v EXCEPT ![f] = JInt(section.v[f].v + 1)])) :
                     f \in {g \in DrivingFields(c.fn) \cap DOMAIN section.v :
                              IsInt(section.v[g])} }

\* C4: raising one driving count of a calculator by one, the other inputs
\* fixed, never lowers the score it returns.
C4_ScoreMonotone ==
    Returned(ret) =>
        \A c2 \in RaisedCalls(call) :
            LET r2 == Apply(c2) IN Returned(r2) /\ r2.value.score >= ret.value.score

\* C4 witness: five high findings, where one more enters the logarithmic branch
C4_AtLogBoundary ==
    /\ call.fn = "compute_defender_risk"
    /\ call.args = <<JInt(5), JInt(0), JInt(0)>>
    /\ Returned(ret)
    /\ RaisedCalls(call) # {}

\* the order of the severities
SeverityRank == [none |-> 0, low |-> 1, medium |-> 2, high |-> 3, critical |-> 4]

\* C5 as claimed: raising one driving count of a calculator by one, the other
\* inputs fixed, never lowers the severity it returns, in the order
\* none < low < medium < high < critical.
C5_SeverityMonotone ==
    Returned(ret) =>
        \A c2 \in RaisedCalls(call) :
            LET r2 == Apply(c2)
            IN  /\ Returned(r2)
                /\ SeverityRank[r2.value.severity] >= SeverityRank[ret.value.severity]

\* every integer a call holds that is below zero, replaced by zero
ClampInt(x) == IF IsInt(x) /\ x.v < 0 THEN JInt(0) ELSE x

ClampedCall(c) ==
    CASE c.fn = "compute_policy_risk" -> [c EXCEPT !.args[1] = ClampInt(@)]
      [] c.fn = "compute_defender_risk" ->
            [c EXCEPT !.args = [i \in 1..3 |-> ClampInt(c.args[i])]]
      [] OTHER ->
            LET section == SectionOf(c) IN
            IF section.t # "dict" \/ section.v = <<>> THEN c
            ELSE WithSection(c, JDict([f \in DOMAIN section.v |-> ClampInt(section.v[f])]))

HasNegative(c) == ClampedCall(c) # c

\* C9: a calculator returns the same score and severity for a call with
\* negative counts as for the call with those counts replaced by zero, and the
\* defender calculator, given integers, never fails in math.log: every
\* argument it passes to it is at least 2.
C9_NegativeIsZero ==
    /\ Returned(ret) /\ HasNegative(call) =>
           LET r0 == Apply(ClampedCall(call))
           IN  /\ Returned(r0)
               /\ r0.value.score = ret.value.score
               /\ r0.value.severity = ret.value.severity
    /\ /\ call.fn = "compute_defender_risk"
       /\ \A i \in 1..3 : IsInt(call.args[i])
       /\ ret # NoReport
       => /\ Returned(ret)
          /\ \A x \in DefenderLogArguments(NonNeg(call.args[1].v), NonNeg(call.args[2].v)) :
                 x >= 2

\* C9 witness: a negative high count beside a medium count in the logarithmic
\* branch
C9_NegativeBesideLog ==
    /\ call.fn = "compute_defender_risk"
    /\ call.args = <<JInt(-1), JInt(11), JInt(-1)>>
    /\ Returned(ret)
    /\ ret.value.score = 35
    /\ DefenderLogArguments(NonNeg(call.args[1].v), NonNeg(call.args[2].v)) = {2}

\* a component that scores nothing
ZeroResult(result) == result.score = 0 /\ result.severity = "none"

\* the n of a policy call that returns: max(0, int(unique_noncompliant_policies))
PolicyN(c) == NonNeg(PyInt(c.args[1]).value)

\* the severity the specification gives a reported policy score
PolicyBand(reported) ==
    IF reported <= 10 THEN "low" ELSE IF reported <= 25 THEN "medium" ELSE "high"

\* C12 as claimed: a policy result is 0 with severity none when n = 0, and
\* for n > 0 its severity is the band of the integer score it reports: low up
\* to 10, medium from 11 to 25, high above 25.
C12_SeverityOfReportedScore ==
    call.fn = "compute_policy_risk" /\ Returned(ret) =>
        IF PolicyN(call) = 0
        THEN ZeroResult(ret.value)
        ELSE ret.value.severity = PolicyBand(ret.value.score)

\* floor(min(40, 40 * (1 - e^(-n/10)) * multiplier)) for n = 1..30, from the
\* decimal expansion of e^(-n/10)
ExpectedPolicyScore ==
    [plain |-> <<3, 7, 10, 13, 15, 18, 20, 22, 23, 25, 26, 27, 29, 30, 31,
                 31, 32, 33, 34, 34, 35, 35, 35, 36, 36, 37, 37, 37, 37, 38>>,
     raised |-> <<4, 8, 12, 15, 18, 21, 24, 26, 28, 30, 32, 33, 34, 36, 37,
                  38, 39, 40, 40, 40, 40, 40, 40, 40, 40, 40, 40, 40, 40, 40>>]

\* the noncompliant_records of the first k entries of a list, an entry
\* without the field counting 0
RecordsOfFirst(entries, k) ==
    LET records(i) == IF "noncompliant_records" \in DOMAIN entries[i].v
                      THEN entries[i].v["noncompliant_records"].v ELSE 0
        upto[i \in 0..Len(entries)] == IF i = 0 THEN 0 ELSE upto[i - 1] + records(i)
    IN  upto[Min(k, Len(entries))]

\* the multiplier is 1.2: a positive total, and more than 60% of it in the
\* first three entries
ExpectedRaised(entries) ==
    LET total == RecordsOfFirst(entries, Len(entries))
    IN  total > 0 /\ 5 * RecordsOfFirst(entries, 3) > 3 * total

\* C13: for n > 0 and any list of top policies, an empty one included, the
\* policy calculator returns floor(min(40, 40 * (1 - e^(-n/10)) * m)), where m
\* is 1.2 when the list has a positive total of records and its first three
\* entries hold more than 60% of it, and 1.0 otherwise.
C13_PolicyScore ==
    /\ call.fn = "compute_policy_risk"
    /\ ret # NoReport
    /\ IsInt(call.args[1]) /\ call.args[1].v > 0
    /\ call.args[2].t = "list"
    => /\ Returned(ret)
       /\ ret.value.score =
            ExpectedPolicyScore[IF ExpectedRaised(call.args[2].v) THEN "raised" ELSE "plain"]
                               [call.args[1].v]

\* C13 witness: scenario A, n = 10 with 90% of the records in the first three
\* entries, scored 30 with severity high
C13_ScenarioA ==
    /\ call.fn = "compute_policy_risk"
    /\ call.args = <<JInt(10), ConcentratedTop>>
    /\ Returned(ret)
    /\ ret.value.score = 30
    /\ ret.value.severity = "high"

\* an IAM call whose three counts are integers, with the counts after clamping
IamOfIntegers(c) ==
    /\ c.fn = "compute_iam_risk"
    /\ c.args[2].t = "dict"
    /\ {"owners", "contributors", "readers"} \subseteq DOMAIN c.args[2].v
    /\ \A f \in {"owners", "contributors", "readers"} : IsInt(c.args[2].v[f])

IamOwners(c) == NonNeg(c.args[2].v.owners.v)
IamContributors(c) == NonNeg(c.args[2].v.contributors.v)
IamReaders(c) == NonNeg(c.args[2].v.readers.v)

\* the owner term of the specification
ExpectedOwnerTerm(owners) ==
    CASE owners = 0 -> 0
      [] owners = 1 -> 5
      [] owners \in 2..3 -> 15
      [] owners \in 4..5 -> 25
      [] owners > 5 -> 35

\* floor(min(15, 15 * (1 - e^(-c/20)))) for c = 0..40, from the decimal
\* expansion of e^(-c/20), as a function of c
ExpectedContributorFloor ==
    [c \in 0..40 |->
        <<0, 0, 1, 2, 2, 3, 3, 4, 4, 5, 5, 6, 6, 7, 7, 7, 8, 8, 8, 9, 9, 9, 10, 10, 10, 10,
          10, 11, 11, 11, 11, 11, 11, 12, 12, 12, 12, 12, 12, 12, 12>>[c + 1]]

\* the privilege penalty of the specification
ExpectedPenalty(owners, contributors, readers) ==
    IF owners + contributors > 0 /\ readers > 0 /\ owners + contributors > readers
    THEN 5 ELSE 0

\* C14: the IAM score is min(35, floor(owner term + contributor term +
\* penalty)); the owner term and the penalty are integers, so the floor is
\* taken of the contributor term.
C14_IamScore ==
    IamOfIntegers(call) /\ ret # NoReport =>
        /\ Returned(ret)
        /\ ret.value.score =
             Min(35, ExpectedOwnerTerm(IamOwners(call))
                     + ExpectedContributorFloor[IamContributors(call)]
                     + ExpectedPenalty(IamOwners(call), IamContributors(call), IamReaders(call)))

\* C14 witness: one owner beside one reader, a privileged share of exactly one
\* half, which gets no penalty
C14_ExactlyHalf ==
    /\ IamOfIntegers(call)
    /\ IamOwners(call) = 1 /\ IamContributors(call) = 0 /\ IamReaders(call) = 1
    /\ Returned(ret)
    /\ ret.value.score = 5

\* the IAM severity of the specification
ExpectedIamSeverity(owners, contributors) ==
    CASE owners > 5 -> "critical"
      [] owners \in 4..5 -> "high"
      [] owners \in 1..3 -> "medium"
      [] owners = 0 /\ contributors > 30 -> "high"
      [] owners = 0 /\ contributors \in 16..30 -> "medium"
      [] owners = 0 /\ contributors \in 1..15 -> "low"
      [] owners = 0 /\ contributors = 0 -> "none"

\* the call with its readers count replaced
WithReaders(c, readers) ==
    [c EXCEPT !.args[2] = JDict([c.args[2].v EXCEPT !["readers"] = JInt(readers)])]

\* C15: the IAM severity is the owner band when there are owners, the
\* contributor band when there are none, and none without either; no readers
\* count, and so no privilege penalty, changes it.
C15_IamSeverity ==
    IamOfIntegers(call) /\ Returned(ret) =>
        /\ ret.value.severity = ExpectedIamSeverity(IamOwners(call), IamContributors(call))
        /\ \A readers \in 0..MaxReaders :
               LET other == Apply(WithReaders(call, readers))
               IN  Returned(other) /\ other.value.severity = ret.value.severity

\* C15 witness: one owner beside 31 contributors and one reader, reported
\* medium, with the penalty in the score
C15_OwnerBesideSprawl ==
    /\ IamOfIntegers(call)
    /\ IamOwners(call) = 1 /\ IamContributors(call) = 31 /\ IamReaders(call) = 1
    /\ Returned(ret)
    /\ ret.value.severity = "medium"
    /\ ret.value.score = 5 + ExpectedContributorFloor[31] + 5

\* C16 as claimed: with owners and contributors fixed, one more reader never
\* lowers the IAM score.
C16_ReadersMonotone ==
    IamOfIntegers(call) /\ Returned(ret) =>
        LET more == Apply(WithReaders(call, call.args[2].v.readers.v + 1))
        IN  Returned(more) /\ more.value.score >= ret.value.score

\* a defender call whose three counts are integers, with the counts after
\* clamping
DefenderOfIntegers(c) ==
    c.fn = "compute_defender_risk" /\ \A i \in 1..3 : IsInt(c.args[i])

DefenderHigh(c) == NonNeg(c.args[1].v)
DefenderMedium(c) == NonNeg(c.args[2].v)
DefenderLow(c) == NonNeg(c.args[3].v)

\* C17: the defender score is min(35, 20 * high + 8 * medium + min(10, 2 * low)):
\* the linear terms up to 5 high and 10 medium findings, and the cap of 35
\* whenever a logarithmic branch is taken.
C17_DefenderScore ==
    DefenderOfIntegers(call) /\ ret # NoReport =>
        /\ Returned(ret)
        /\ ret.value.score =
             Min(35, 20 * DefenderHigh(call) + 8 * DefenderMedium(call)
                     + Min(10, 2 * DefenderLow(call)))
        /\ DefenderLogArguments(DefenderHigh(call), DefenderMedium(call)) # {}
             => ret.value.score = 35

\* C17 witness: scenario C, 6 high and 3 medium findings, scored 35 through
\* the logarithmic branch of the high term
C17_ScenarioC ==
    /\ call.fn = "compute_defender_risk"
    /\ call.args = <<JInt(6), JInt(3), JInt(0)>>
    /\ DefenderLogArguments(6, 3) = {2}
    /\ Returned(ret)
    /\ ret.value.score = 35

\* the defender severity of the specification
ExpectedDefenderSeverity(high, medium, low) ==
    CASE high = 0 /\ medium = 0 /\ low = 0 -> "none"
      [] high >= 5 -> "critical"
      [] high \in 2..4 \/ (high < 2 /\ medium >= 15) -> "high"
      [] (high = 1 /\ medium < 15) \/ (high = 0 /\ medium \in 5..14) -> "medium"
      [] OTHER -> "low"

\* C18: the defender severity is none when the three counts are 0 after
\* clamping, and otherwise critical from 5 high findings, high from 2 high or
\* 15 medium, medium from 1 high or 5 medium, and low below that; low
\* findings alone give low.
C18_DefenderSeverity ==
    DefenderOfIntegers(call) /\ Returned(ret) =>
        /\ ret.value.severity =
             ExpectedDefenderSeverity(DefenderHigh(call), DefenderMedium(call), DefenderLow(call))
        /\ DefenderHigh(call) = 0 /\ DefenderMedium(call) = 0 /\ DefenderLow(call) > 0
             => ret.value.severity = "low"

\* C18 witness: six low findings and nothing else, the low term at its limit
\* of 10, reported low
C18_LowAlone ==
    /\ call.fn = "compute_defender_risk"
    /\ call.args = <<JInt(-1), JInt(0), JInt(6)>>
    /\ Returned(ret)
    /\ ret.value.score = 10
    /\ ret.value.severity = "low"

\* a network or encryption call whose section is a mapping of integers
SectionOfIntegers(c, fn) ==
    /\ c.fn = fn
    /\ SectionOf(c).t = "dict"
    /\ \A f \in DOMAIN SectionOf(c).v : IsInt(SectionOf(c).v[f])

\* the count a section gives a field: 0 when the field is absent, and a
\* negative count as 0
CountOf(c, field) ==
    IF field \in DOMAIN SectionOf(c).v THEN NonNeg(SectionOf(c).v[field].v) ELSE 0

\* the section of a call with the fields of a set given a value, or removed
WithFields(c, fields, value) ==
    LET section == SectionOf(c).v
        kept == DOMAIN section \ fields
    IN  { WithSection(c, JDict(Object([f \in kept |-> section[f]]))),
          WithSection(c, JDict([f \in kept \cup fields |->
                                  IF f \in fields THEN value ELSE section[f]])) }

\* the network score of the specification
ExpectedNetworkScore(ports, ips, nsgs) ==
    Min(15, Min(10, 3 * ports)
            + (IF ips > 5 THEN 3 ELSE IF ips \in 3..5 THEN 2 ELSE 0)
            + Min(5, 2 * nsgs))

ExpectedNetworkSeverity(expected) ==
    CASE expected = 0 -> "none"
      [] expected \in 1..4 -> "low"
      [] expected \in 5..9 -> "medium"
      [] expected >= 10 -> "high"

\* C19: the network score is min(15, min(10, 3 * ports) + (3 above 5 public
\* IPs, 2 for 3 to 5) + min(5, 2 * missing NSGs)), its severity is none for 0,
\* low up to 4, medium up to 9 and high from 10, and total_nsgs and total_nics
\* change nothing.
C19_NetworkResult ==
    SectionOfIntegers(call, "compute_network_risk") /\ ret # NoReport =>
        LET expected == ExpectedNetworkScore(CountOf(call, "open_high_risk_ports"),
                                             CountOf(call, "public_ip_count"),
                                             CountOf(call, "missing_nsg_count"))
        IN  /\ Returned(ret)
            /\ ret.value.score = expected
            /\ ret.value.severity = ExpectedNetworkSeverity(expected)
            /\ \A total \in {JInt(0), JInt(9)} :
                 \A other \in WithFields(call, {"total_nsgs", "total_nics"}, total) :
                     Apply(other) = ret

\* C19 witness: scenario D, 5 open ports, 6 public IPs and 2 missing NSGs,
\* a sum of 17 reported as 15 with severity high
C19_ScenarioD ==
    /\ call.fn = "compute_network_risk"
    /\ SectionOf(call) = NetworkSection(JInt(5), JInt(6), JInt(2), JInt(4))
    /\ Returned(ret)
    /\ ret.value.score = 15
    /\ ret.value.severity = "high"

\* the encryption score of the specification
ExpectedEncryptionScore(storage, tls, cmk) ==
    Min(10, (IF storage > 0 THEN 5 ELSE 0) + (IF tls > 0 THEN 3 ELSE 0)
            + (IF cmk > 3 THEN 2 ELSE 0))

ExpectedEncryptionSeverity(expected) ==
    CASE expected = 0 -> "none"
      [] expected \in 1..3 -> "low"
      [] expected \in 4..6 -> "medium"
      [] expected >= 7 -> "high"

\* C20: the encryption score is 5 for an unencrypted storage account, plus 3
\* for a weak TLS configuration, plus 2 for more than 3 accounts without
\* customer-managed keys, at most 10; its severity is none for 0, low up to 3,
\* medium up to 6 and high from 7; https_only_violations and
\* total_storage_accounts change nothing.
C20_EncryptionResult ==
    SectionOfIntegers(call, "compute_encryption_risk") /\ ret # NoReport =>
        LET expected == ExpectedEncryptionScore(CountOf(call, "unencrypted_storage_accounts"),
                                                CountOf(call, "weak_tls_configs"),
                                                CountOf(call, "no_customer_managed_keys"))
        IN  /\ Returned(ret)
            /\ ret.value.score = expected
            /\ ret.value.severity = ExpectedEncryptionSeverity(expected)
            /\ \A total \in {JInt(0), JInt(9)} :
                 \A other \in WithFields(call, {"https_only_violations",
                                                "total_storage_accounts"}, total) :
                     Apply(other) = ret

\* C20 witness: scenario E, 1 unencrypted account, 1 weak TLS configuration
\* and 5 accounts without customer-managed keys, scored 10 with severity high
C20_ScenarioE ==
    /\ call.fn = "compute_encryption_risk"
    /\ SectionOf(call) = EncryptionSection(JInt(1), JInt(1), JInt(5), JInt(6))
    /\ Returned(ret)
    /\ ret.value.score = 10
    /\ ret.value.severity = "high"

\* C23 as claimed: whatever a calculator is given, the result it returns has
\* severity none exactly when its score is 0.
C23_NoneExactlyAtZero ==
    Returned(ret) => (ret.value.severity = "none" <=> ret.value.score = 0)

-----------------------------------------------------------------------------
(* Properties of the report *)

Done == pc = "done"

Details == report.value.component_details

DetailsSeq(details) ==
    <<details.policy, details.iam, details.defender, details.network, details.encryption>>

ExpectedLevelByScore(risk_score) ==
    CASE risk_score >= 75 -> "Critical"
      [] risk_score \in 60..74 -> "High"
      [] risk_score \in 40..59 -> "Medium-High"
      [] risk_score \in 25..39 -> "Medium"
      [] risk_score \in 10..24 -> "Low-Medium"
      [] risk_score < 10 -> "Low"

SomeCritical == \E i \in 1..5 : DetailsSeq(Details)[i].severity = "critical"

\* C3: risk_level is Critical when a component is critical and risk_score is
\* at least 50, and otherwise the level of the score thresholds 75, 60, 40, 25
\* and 10; a critical component beside a risk_score below 50 changes nothing.
C3_RiskLevel ==
    Done =>
        report.value.risk_level =
            IF SomeCritical /\ report.value.risk_score >= 50
            THEN "Critical"
            ELSE ExpectedLevelByScore(report.value.risk_score)

\* C3 witness: a critical component beside a risk score of 49
C3_CriticalBelowFloor ==
    /\ Done
    /\ SomeCritical
    /\ report.value.risk_score = 49
    /\ report.value.risk_level = "Medium-High"

\* the component a section of the document is scored as
ComponentOf(key) == IF key = "iam_counts" THEN "iam" ELSE key

\* the counts of a section that its calculator reads
CountFields(key) ==
    CASE key = "policy" -> {"unique_noncompliant_policies"}
      [] key = "iam_counts" -> {"owners", "contributors", "readers"}
      [] key = "defender" -> {"high", "medium", "low"}
      [] key = "network" -> {"open_high_risk_ports", "public_ip_count", "missing_nsg_count"}
      [] key = "encryption" ->
            {"unencrypted_storage_accounts", "weak_tls_configs", "no_customer_managed_keys"}

\* a section that is present, a mapping, and holds only zero counts
AllZero(doc, key) ==
    /\ key \in DOMAIN doc
    /\ doc[key].t = "dict"
    /\ CountFields(key) \subseteq DOMAIN doc[key].v
    /\ \A f \in CountFields(key) : IsInt(doc[key].v[f])
    /\ \A f \in DOMAIN doc[key].v : IsInt(doc[key].v[f]) => doc[key].v[f].v = 0

\* the document with one key removed
WithoutKey(doc, key) == [k \in DOMAIN doc \ {key} |-> doc[k]]

\* C8: a document with a section whose counts are all zero is scored like the
\* document without that section: the component is 0 with severity none in
\* both, and risk_score and risk_level agree.
C8_AbsentIsZero ==
    Done =>
        \A key \in SectionKeys :
            AllZero(data, key) =>
                LET other == score(WithoutKey(data, key))
                    name == ComponentOf(key)
                IN  /\ Returned(other)
                    /\ ZeroResult(Details[name])
                    /\ other.value.component_details[name] = Details[name]
                    /\ other.value.risk_score = report.value.risk_score
                    /\ other.value.risk_level = report.value.risk_level

\* C8 witness: a scored document whose iam_counts are all zero beside
\* components that score
C8_ZeroIamCounts ==
    /\ Done
    /\ AllZero(data, "iam_counts")
    /\ "iam_counts" \notin DOMAIN WithoutKey(data, "iam_counts")
    /\ report.value.risk_score > 0

\* a field a mapping of the document supplies with a value of the tag
Supplies(section, field, tag) ==
    /\ section.t = "dict"
    /\ field \in DOMAIN section.v
    /\ section.v[field].t = tag

\* raw is the raw_inputs echo of the values doc supplies: the counts as
\* integers, the lists, the drift label and the sections as they are
EchoesInput(doc, raw) ==
    /\ "policy" \in DOMAIN doc =>
        /\ Supplies(doc["policy"], "unique_noncompliant_policies", "int") =>
               JInt(raw.policy.unique_noncompliant_policies)
                   = doc["policy"].v["unique_noncompliant_policies"]
        /\ Supplies(doc["policy"], "top_noncompliant_policies", "list") =>
               raw.policy.top_noncompliant_policies
                   = doc["policy"].v["top_noncompliant_policies"]
    /\ Supplies(JDict(doc), "iam_drift", "str") => raw.iam.drift = doc["iam_drift"]
    /\ Supplies(JDict(doc), "iam_counts", "dict") => raw.iam.counts = doc["iam_counts"]
    /\ Supplies(JDict(doc), "owner_principals_sample", "list") =>
           raw.iam.owner_principals_sample = doc["owner_principals_sample"]
    /\ Supplies(JDict(doc), "contributor_principals_sample", "list") =>
           raw.iam.contributor_principals_sample = doc["contributor_principals_sample"]
    /\ "defender" \in DOMAIN doc =>
           \A f \in {"high", "medium", "low"} :
               Supplies(doc["defender"], f, "int") => JInt(raw.defender[f]) = doc["defender"].v[f]
    /\ "network" \in DOMAIN doc => raw.network = doc["network"]
    /\ "encryption" \in DOMAIN doc => raw.encryption = doc["encryption"]

\* C7: the step of main() that prints a report leaves the loaded document as
\* it was, and the report's raw_inputs holds every value the document
\* supplies unchanged, a negative count included.
C7_RawInputsEcho ==
    [][pc = "loaded" /\ pc' = "done" =>
          /\ data' = data
          /\ EchoesInput(data, report'.value.raw_inputs)]_vars

\* C7 witness: a report for a document with negative policy and IAM counts,
\* which raw_inputs shows as supplied
C7_NegativeEchoed ==
    /\ Done
    /\ Supplies(JDict(data), "policy", "dict")
    /\ data["policy"].v["unique_noncompliant_policies"] = JInt(-1)
    /\ report.value.raw_inputs.policy.unique_noncompliant_policies = -1
    /\ Supplies(JDict(data), "iam_counts", "dict")
    /\ data["iam_counts"].v["owners"] = JInt(-1)
    /\ report.value.raw_inputs.iam.counts.v["owners"] = JInt(-1)
    /\ Details.policy.score = 0

\* a count that is null or a string that is no number
NonNumeric(x) ==
    \/ x.t = "null"
    \/ x.t = "str" /\ x.v \notin DOMAIN NumericStrings

\* a section that is present and is no mapping, or holds a count that is null
\* or non-numeric
Malformed(doc, key) ==
    /\ key \in DOMAIN doc
    /\ \/ doc[key].t # "dict"
       \/ \E f \in CountFields(key) \cap DOMAIN doc[key].v : NonNumeric(doc[key].v[f])

\* C10 as claimed: a run on a document with a malformed section ends with a
\* report, not an exception, and the report scores that component 0 with
\* severity none.
C10_MalformedNotFatal ==
    pc \in {"done", "raised"} =>
        \A key \in SectionKeys :
            Malformed(data, key) =>
                /\ Returned(report)
                /\ ZeroResult(report.value.component_details[ComponentOf(key)])

\* the place of a component in the canonical order
CanonicalPlace(name) == CHOOSE i \in 1..5 : ComponentNames[i] = name

\* driver a comes before driver b: a higher score, or the same score and an
\* earlier place in the canonical order
Before(a, b) ==
    \/ a.score > b.score
    \/ a.score = b.score /\ CanonicalPlace(a.component) < CanonicalPlace(b.component)

\* the components of the report that score above 0
PositiveComponents == {name \in DOMAIN Details : Details[name].score > 0}

\* C21: top_risk_drivers holds min(3, positive components) entries, each a
\* component with its own positive score and its severity, in descending
\* order of score with ties in the canonical order, and every positive
\* component left out comes after every entry.
C21_TopRiskDrivers ==
    Done =>
        LET drivers == report.value.risk_analysis.top_risk_drivers
            listed == {drivers[i].component : i \in DOMAIN drivers}
        IN  /\ Len(drivers) = Min(3, Cardinality(PositiveComponents))
            /\ \A i \in DOMAIN drivers :
                 /\ drivers[i].component \in PositiveComponents
                 /\ drivers[i].score = Details[drivers[i].component].score
                 /\ drivers[i].severity = Details[drivers[i].component].severity
                 /\ DOMAIN drivers[i] = {"component", "score", "severity"}
            /\ \A i, j \in DOMAIN drivers : i < j => Before(drivers[i], drivers[j])
            /\ \A name \in PositiveComponents \ listed :
                 \A i \in DOMAIN drivers :
                     Before(drivers[i], [component |-> name, score |-> Details[name].score])

\* C21 witness: the end-to-end scenario, five positive components with iam and
\* defender tied at 35: iam, defender, policy are listed and network and
\* encryption are left out
C21_TiedDrivers ==
    /\ Done
    /\ data = ScenarioDoc
    /\ Cardinality(PositiveComponents) = 5
    /\ LET drivers == report.value.risk_analysis.top_risk_drivers
       IN  /\ Len(drivers) = 3
           /\ <<drivers[1].component, drivers[2].component, drivers[3].component>>
                = <<"iam", "defender", "policy">>
           /\ drivers[1].score = drivers[2].score

\* tenths is a multiple of 0.1 nearest to part / total * 100
NearestTenth(tenths, part, total) ==
    LET gap == tenths * total - part * 1000
    IN  2 * (IF gap < 0 THEN -gap ELSE gap) <= total

\* C22: risk_distribution is empty when the component scores sum to 0, and
\* otherwise has an entry for each of the five components with its score, its
\* severity and score / total * 100 rounded to one decimal: 0 for a component
\* that scores 0, 100 for the only component that scores.
C22_RiskDistribution ==
    Done =>
        LET distribution == report.value.risk_analysis.risk_distribution
            total == Details.policy.score + Details.iam.score + Details.defender.score
                     + Details.network.score + Details.encryption.score
        IN  IF total = 0 THEN DOMAIN distribution = {}
            ELSE /\ DOMAIN distribution = {ComponentNames[i] : i \in 1..5}
                 /\ \A name \in DOMAIN distribution :
                      LET entry == distribution[name] IN
                      /\ DOMAIN entry = {"score", "percentage", "severity"}
                      /\ entry.score = Details[name].score
                      /\ entry.severity = Details[name].severity
                      /\ NearestTenth(entry.percentage, entry.score, total)
                      /\ entry.score = 0 => entry.percentage = 0
                      /\ entry.score = total => entry.percentage = 1000

\* C22 witness: a report whose only scoring component is iam, listed with 100
\* beside four components listed with 0
C22_SoleContributor ==
    /\ Done
    /\ PositiveComponents = {"iam"}
    /\ LET distribution == report.value.risk_analysis.risk_distribution
       IN  /\ distribution.iam.percentage = 1000
           /\ distribution.policy.percentage = 0
           /\ Cardinality(DOMAIN distribution) = 5

\* the labels iam_drift takes, and its absence
DriftLabels == {Absent, JStr("none"), JStr("contributor"), JStr("owner")}

\* the document with iam_drift given a label, or removed
WithDrift(doc, label) ==
    IF label = Absent THEN WithoutKey(doc, "iam_drift")
    ELSE [k \in DOMAIN doc \cup {"iam_drift"} |-> IF k = "iam_drift" THEN label ELSE doc[k]]

\* C24: a document scored with any other iam_drift label, or without one,
\* gives the same report except for raw_inputs, which differs in the drift
\* label alone: the IAM result, risk_score, risk_level, risk_distribution and
\* top_risk_drivers are the same.
C24_DriftDoesNotScore ==
    Done =>
        \A label \in DriftLabels :
            LET other == score(WithDrift(data, label)) IN
            /\ Returned(other)
            /\ [other.value EXCEPT !.raw_inputs = report.value.raw_inputs] = report.value
            /\ [other.value.raw_inputs EXCEPT !.iam.drift = report.value.raw_inputs.iam.drift]
                 = report.value.raw_inputs
            /\ other.value.raw_inputs.iam.drift = IF label = Absent THEN JStr("none") ELSE label

\* C24 witness: a report for a document labelled owner whose IAM component
\* scores, beside the report for the same document labelled none
C24_OwnerLabel ==
    /\ Done
    /\ "iam_drift" \in DOMAIN data
    /\ data["iam_drift"] = JStr("owner")
    /\ Details.iam.score > 0
    /\ report.value.raw_inputs.iam.drift = JStr("owner")
    /\ score(WithDrift(data, JStr("none"))).value.raw_inputs.iam.drift = JStr("none")

\* the exceptions load_real_inputs() can end with; main() raises none of them
\* after the document is loaded
LoadErrors == {"FileNotFoundError", "UnicodeDecodeError", "UnicodeError", "JSONDecodeError"}

LoadRaised == pc = "raised" /\ report.value \in LoadErrors

\* some encoding of the five parses the file
Works(file) == \E i \in 1..Len(Encodings) : file.reads[i] = "json"

\* C25 as claimed: a file that at least one of the five encodings parses is
\* loaded as its document, and loading raises only when the file is missing or
\* no encoding parses it.
C25_FirstWorkingEncoding ==
    /\ found.exists = "yes" /\ Works(found) => ~LoadRaised /\ data = found.doc
    /\ LoadRaised => found = NoFile \/ ~Works(found)

-----------------------------------------------------------------------------
(* Properties of successive runs *)

\* C11: a run that finds no input file ends with the missing-input error
\* (FileNotFoundError), as load_real_inputs() raised it, and emits no report.
C11_MissingInputIsFatal ==
    found = NoFile => pc = "raised" /\ report = Raise("FileNotFoundError") /\ data = <<>>

\* C11 witness: a run that found no file, after a run that printed a report
C11_MissingAfterReport ==
    /\ found = NoFile
    /\ pc = "raised"
    /\ memo # NoReport

====
